---------------------------- MODULE Spec2Model ----------------------------
(***************************************************************************)
(* Dataverse -> Unity Catalog bronze notebook                              *)
(* (src/Dataverse_to_Bronze_fst_chemical.py).                              *)
(*                                                                         *)
(* The notebook is one sequential program: get_cfg, get_access_token, two  *)
(* calls of dataverse_to_spark (each driving two fetch_all generators,     *)
(* each page request going through dataverse_get), then two table writes.  *)
(* The state is the notebook's globals, the frames of the running calls    *)
(* and what the outside world (secret store, widgets, Dataverse server,    *)
(* catalog) holds.                                                         *)
(*                                                                         *)
(* The specifications share the actions:                                   *)
(*   SpecCfg    get_cfg alone, over every secret-store / widget content    *)
(*   SpecGet    one call of dataverse_get, over every max_retries          *)
(*   SpecSpark  one call of dataverse_to_spark, over datasets and          *)
(*              sample_rows                                                *)
(*   FairSpark  one call of dataverse_to_spark that keeps running          *)
(*   Spec       the whole notebook run                                     *)
(*   SpecRerun  the notebook run twice against the same server             *)
(***************************************************************************)
EXTENDS Integers, Sequences, FiniteSets, TLC

(***************************************************************************)
(* Bounds of the model (not program constants).                            *)
(***************************************************************************)
\* longest record stream an entity set serves in SpecSpark
MaxRecords == 2
\* largest page size the server cuts a stream into
MaxPageSize == 2
\* largest sample_rows argument tried in SpecSpark
MaxSampleRows == 2
\* largest max_retries argument tried in SpecGet
MaxRetriesArg == 7
\* longest record stream an entity set serves in the notebook run (Spec)
MaxJobRecords == 2
\* failures the server answers in one paged run (SpecSpark, Spec)
MaxFaults == 5

(***************************************************************************)
(* Program constants.                                                      *)
(***************************************************************************)
\* dataverse_get(..., max_retries:int=5)
DefaultMaxRetries == 5
\* fetch_all(..., page_size:int=5000)
DefaultPageSize == 5000
\* dataverse_to_spark(..., sample_rows:int=1000)
DefaultSampleRows == 1000
\* _backoff(attempt, base=1.0, ...)
BackoffBase == 1
\* _backoff(attempt, ..., cap=30.0)
BackoffCap == 30
\* r.status_code == 200
StatusOk == 200

API_VER == "v9.2"

\* ENTITY_SETS: friendly table name -> Dataverse entity set
ENTITY_SETS == ("zz_recipe" :> "zz_Recipe") @@ ("zz_components" :> "zz_components")

TableNames == DOMAIN ENTITY_SETS

EntityNames == {ENTITY_SETS[t] : t \in TableNames}

VARIABLES
    dbutilsOk,      \* whether the name dbutils resolves (_dbutils does not raise)
    secrets,        \* secret store: secret name -> <<>> (no such secret) or <<value>>
    widgets,        \* widgets: config key -> text ("" when left blank)
    cfg,            \* get_cfg: [state, values, missing]
    token,          \* get_access_token: [state, requests]
    pages,          \* Dataverse server: entity set -> sequence of response bodies
    serverStatuses, \* the non-200 statuses this server may answer with
    faultsLeft,     \* how many more requests the server answers with a failure
    pc,             \* position in the notebook ("none" outside a notebook run)
    dfs,            \* notebook globals recipe_df / components_df: table name -> <<>> or <<df>>
    tables,         \* catalog: table name -> <<>> (no table) or <<table>>
    written,        \* table names written by the current run
    ts,             \* frame of dataverse_to_spark
    gens,           \* the two fetch_all generators of the frame: "it" and "rest"
    cur,            \* the generator being run ("none" when none is)
    dg,             \* frame of dataverse_get
    err,            \* exception that reached the top level: <<>> or <<exception>>
    runs            \* the catalog as each earlier, completed run of the notebook left it

vars == <<dbutilsOk, secrets, widgets, cfg, token, pages, serverStatuses, faultsLeft, pc,
          dfs, tables, written, ts, gens, cur, dg, err, runs>>

cfgVars == <<dbutilsOk, secrets, widgets>>

serverVars == <<pages, serverStatuses, faultsLeft>>

(***************************************************************************)
(* Small helpers.                                                          *)
(***************************************************************************)
Min(a, b) == IF a <= b THEN a ELSE b

RECURSIVE Pow2(_)
Pow2(n) == IF n <= 0 THEN 1 ELSE 2 * Pow2(n - 1)

RECURSIVE SumSeq(_)
SumSeq(s) == IF s = <<>> THEN 0 ELSE Head(s) + SumSeq(Tail(s))

Range(s) == {s[i] : i \in DOMAIN s}

\* dict.get(key, default)
DictGet(d, key, default) == IF key \in DOMAIN d THEN d[key] ELSE default

\* a test for None alone: "" passes it
TruthyNotNone(opt) == opt # <<>>

\* Python truthiness of an optional text: None (<<>>) and "" are falsy
Truthy(opt) == opt # <<>> /\ opt[1] # ""

\* Python `a or b` on optional texts
PyOr(a, b) == IF Truthy(a) THEN a ELSE b

(***************************************************************************)
(* Configuration: get_cfg (lines 58-78).                                   *)
(***************************************************************************)
\* the dict of line 75, in insertion order
CfgKeys == <<"client_id", "client_secret", "tenant_id", "dataverse_url">>

CfgKeySet == Range(CfgKeys)

\* the secret name get_cfg asks the scope for, per config key (lines 60-64)
SecretName(k) ==
    CASE k = "client_id" -> "dataverse-client-id"
      [] k = "client_secret" -> "dataverse-client-secret"
      [] k = "tenant_id" -> "dataverse-tenant-id"
      [] k = "dataverse_url" -> "dataverse-url"

SecretNames == {SecretName(k) : k \in CfgKeySet}

\* the text a configured secret / a filled widget holds for key k; the URL
\* carries no trailing slash, so DATAVERSE_URL.rstrip("/") leaves it as it is
SecretValue(k) == IF k = "dataverse_url" THEN "https://org.crm.dynamics.com" ELSE "kv:" \o k

WidgetValue(k) == IF k = "dataverse_url" THEN "https://dev.crm.dynamics.com" ELSE "widget:" \o k

\* _dbutils().secrets.get(SECRET_SCOPE, name) raises: dbutils is not defined
\* (RuntimeError of line 56) or the scope holds no such secret
SecretGetRaises(ok, sec, name) == ~ok \/ sec[name] = <<>>

\* lines 59-68: the values read from the secret store, None as <<>>.  One
\* failing get among the first three abandons the whole try block; only the
\* get of dataverse-url has a handler of its own.
ReadSecrets(ok, sec) ==
    IF \/ SecretGetRaises(ok, sec, "dataverse-client-id")
       \/ SecretGetRaises(ok, sec, "dataverse-client-secret")
       \/ SecretGetRaises(ok, sec, "dataverse-tenant-id")
    THEN [k \in CfgKeySet |-> <<>>]
    ELSE [k \in CfgKeySet |->
            IF k = "dataverse_url" /\ SecretGetRaises(ok, sec, "dataverse-url")
            THEN <<>>
            ELSE sec[SecretName(k)]]

\* lines 70-73: `x = x or widgets.get(...)`
ResolveCfg(ok, sec, wid) ==
    LET fromSecrets == ReadSecrets(ok, sec)
    IN  [k \in CfgKeySet |-> PyOr(fromSecrets[k], <<wid[k]>>)]

\* line 75: the keys whose value is falsy, in dict order
MissingCfg(values) == SelectSeq(CfgKeys, LAMBDA k : ~Truthy(values[k]))

CfgUnset == [state |-> "unset", values |-> [k \in CfgKeySet |-> <<>>], missing |-> <<>>]

ValueError(missing) ==
    [exc |-> "ValueError", text |-> "Missing config", status |-> <<>>, details |-> <<missing>>]

\* line 80: CLIENT_ID, CLIENT_SECRET, TENANT_ID, DATAVERSE_URL = get_cfg()
GetCfg ==
    /\ pc = "get_cfg"
    /\ LET values  == ResolveCfg(dbutilsOk, secrets, widgets)
           missing == MissingCfg(values)
       IN  IF missing # <<>>
           THEN /\ cfg' = [state |-> "raised", values |-> values, missing |-> missing]
                /\ err' = <<ValueError(missing)>>
                /\ pc' = "failed"
           ELSE /\ cfg' = [state |-> "ok", values |-> values, missing |-> <<>>]
                /\ err' = err
                /\ pc' = "get_access_token"
    /\ UNCHANGED <<cfgVars, runs, serverVars, token, dfs, tables, written, ts, gens, cur, dg>>

\* line 81: RESOURCE = DATAVERSE_URL.rstrip("/")
RESOURCE == cfg.values["dataverse_url"][1]

\* line 82: SCOPE = f"{RESOURCE}/.default"
SCOPE == RESOURCE \o "/.default"

(***************************************************************************)
(* Records and tables: pd.json_normalize(...).astype("string"),            *)
(* spark.createDataFrame, unionByName (lines 179-189).                     *)
(*                                                                         *)
(* A Record is a JSON object: a function from field name to a JSON value.  *)
(***************************************************************************)
Str(s) == [k |-> "str", s |-> s]

Num(n) == [k |-> "num", n |-> n]

Null == [k |-> "null"]

Dict(d) == [k |-> "dict", d |-> d]

\* pandas' marker of a cell no record supplied
NaN == [k |-> "nan"]

\* pandas' missing text (pd.NA) after astype("string")
NA == [k |-> "NA"]

\* the records the modelled entity sets are made of: RecA and RecB have
\* disjoint field sets, RecB nests an object, RecC supplies a JSON null
RecA == ("name" :> Str("Epoxy")) @@ ("qty" :> Num(5))

RecB == ("owner" :> Dict(("id" :> Num(7)) @@ ("name" :> Str("ops"))))

RecC == ("name" :> Null) @@ ("code" :> Str("C-1"))

RecordPool == {RecA, RecB, RecC}

\* json_normalize: nested objects become dotted column names
RECURSIVE FlattenPairs(_, _)
FlattenPairs(prefix, d) ==
    UNION { IF d[key].k = "dict"
            THEN FlattenPairs(prefix \o key \o ".", d[key].d)
            ELSE {<<prefix \o key, d[key]>>} : key \in DOMAIN d }

Flatten(rec) ==
    LET pairs == FlattenPairs("", rec)
    IN  [c \in {p[1] : p \in pairs} |-> (CHOOSE p \in pairs : p[1] = c)[2]]

\* pd.json_normalize(records): one row per record, the columns are the
\* union of the flattened field names, a field a record lacks is NaN
JsonNormalize(records) ==
    LET columns == UNION {DOMAIN Flatten(records[i]) : i \in DOMAIN records}
    IN  [columns |-> columns,
         rows    |-> [i \in DOMAIN records |->
                        [c \in columns |-> DictGet(Flatten(records[i]), c, NaN)]]]

IsMissing(v) == v.k \in {"nan", "null"}

\* pandas holds a column of integers with a missing cell as float64
ColumnIsFloat(pdf, c) ==
    /\ \A i \in DOMAIN pdf.rows : pdf.rows[i][c].k \in {"num", "nan", "null"}
    /\ \E i \in DOMAIN pdf.rows : pdf.rows[i][c].k = "num"
    /\ \E i \in DOMAIN pdf.rows : IsMissing(pdf.rows[i][c])

\* .astype("string"): every cell to its text, a missing cell to pd.NA
AsTypeString(pdf) ==
    [columns |-> pdf.columns,
     rows    |-> [i \in DOMAIN pdf.rows |->
                    [c \in pdf.columns |->
                        LET v == pdf.rows[i][c]
                        IN  CASE IsMissing(v) -> NA
                              [] v.k = "str" -> Str(v.s)
                              [] v.k = "num" ->
                                    Str(IF ColumnIsFloat(pdf, c)
                                        THEN ToString(v.n) \o ".0"
                                        ELSE ToString(v.n))]]]

\* spark.createDataFrame(pdf): a DataFrame of string columns; a cell is
\* <<>> (null) or <<text>>
CreateDataFrame(pdf) ==
    [columns |-> pdf.columns,
     rows    |-> [i \in DOMAIN pdf.rows |->
                    [c \in pdf.columns |->
                        IF pdf.rows[i][c] = NA THEN <<>> ELSE <<pdf.rows[i][c].s>>]]]

\* spark.createDataFrame([], T.StructType([])) (line 179)
EmptyDataFrame == [columns |-> {}, rows |-> <<>>]

\* a union that keeps the columns of the left side only
UnionLeftColumns(left, right) ==
    [columns |-> left.columns,
     rows    |-> left.rows \o [i \in DOMAIN right.rows |->
                                 [c \in left.columns |-> DictGet(right.rows[i], c, <<>>)]]]

\* sdf.unionByName(sdf2, allowMissingColumns=True) (line 189)
UnionByName(left, right) ==
    LET columns == left.columns \cup right.columns
        Pad(df) == [i \in DOMAIN df.rows |->
                      [c \in columns |-> DictGet(df.rows[i], c, <<>>)]]
    IN  [columns |-> columns, rows |-> Pad(left) \o Pad(right)]

\* lines 181-182 and 187-188: records to a Spark DataFrame
ToDataFrame(records) == CreateDataFrame(AsTypeString(JsonNormalize(records)))

(***************************************************************************)
(* URLs and the Dataverse server.                                          *)
(***************************************************************************)
RECURSIVE Join(_, _)
Join(parts, sep) ==
    IF parts = <<>> THEN ""
    ELSE IF Len(parts) = 1 THEN parts[1]
    ELSE parts[1] \o sep \o Join(Tail(parts), sep)

\* build_entity_url (lines 149-155); select None as <<>>, filter_ None as "",
\* top None as 0
BuildEntityUrl(resource, entity_set, select, filter_, top) ==
    LET base   == resource \o "/api/data/" \o API_VER \o "/" \o entity_set
        params == (IF select # <<>> THEN <<"$select=" \o Join(select, ",")>> ELSE <<>>)
                  \o (IF filter_ # "" THEN <<"$filter=" \o filter_>> ELSE <<>>)
                  \o (IF top # 0 THEN <<"$top=" \o ToString(top)>> ELSE <<>>)
    IN  base \o (IF params # <<>> THEN "?" \o Join(params, "&") ELSE "")

\* the URL fetch_all starts from (line 158, as dataverse_to_spark calls it:
\* select=None, filter_=None, page_size=5000)
FirstUrl(resource, entity_set) ==
    BuildEntityUrl(resource, entity_set, <<>>, "", DefaultPageSize)

\* the server's continuation link to page i (i > 1) of an entity set: opaque
\* to the client
NextLinkUrl(resource, entity_set, i) ==
    resource \o "/api/data/" \o API_VER \o "/" \o entity_set
        \o "?$skiptoken=" \o ToString(i)

\* the URL under which the server serves page i
PageUrl(resource, entity_set, i) ==
    IF i = 1 THEN FirstUrl(resource, entity_set) ELSE NextLinkUrl(resource, entity_set, i)

\* A served page: [rows, omitValue, link]; link is "next" (a continuation
\* link follows), "absent" (no @odata.nextLink) or "empty" (an empty one).
\* The JSON body of page i:
ServerBody(resource, entity_set, i) ==
    LET page == pages[entity_set][i]
    IN  (IF page.omitValue THEN <<>> ELSE ("value" :> page.rows))
        @@ (CASE page.link = "next" ->
                    ("@odata.nextLink" :> NextLinkUrl(resource, entity_set, i + 1))
              [] page.link = "empty" -> ("@odata.nextLink" :> "")
              [] OTHER -> <<>>)

PagePlaces == {<<e, i>> : e \in EntityNames, i \in 1..(MaxRecords + MaxJobRecords + 1)}

\* the pages the server serves under url
PlacesOf(resource, url) ==
    {pl \in PagePlaces : /\ pl[2] <= Len(pages[pl[1]])
                         /\ PageUrl(resource, pl[1], pl[2]) = url}

\* the statuses dataverse_get retries on (line 140)
RetryableStatuses == {429, 500, 502, 503, 504}

\* statuses that are neither 200 nor retried
FatalStatuses == {401, 404}

\* the failure answers that carry a JSON error body; the others carry text
ErrorIsJson(status) == status \in {404, 429}

\* what the server may answer to GET url: 200 with the page's body when the
\* URL is one of its pages (404 otherwise), or, while it has failures left,
\* one of its failure statuses
ServerResponses(resource, url) ==
    LET places == PlacesOf(resource, url)
    IN  {[status_code |-> StatusOk,
          json |-> <<ServerBody(resource, pl[1], pl[2])>>,
          text |-> "json"] : pl \in places}
        \cup
        {[status_code |-> st,
          json |-> IF ErrorIsJson(st) THEN <<("error" :> ToString(st))>> ELSE <<>>,
          text |-> "error " \o ToString(st)] :
            st \in (IF faultsLeft > 0 THEN serverStatuses ELSE {})
                   \cup (IF places = {} THEN {404} ELSE {})}

(***************************************************************************)
(* Retry policy: _backoff and dataverse_get (lines 131-147).               *)
(***************************************************************************)
\* a _backoff whose exponent is the attempt number itself
BackoffExponentOff(attempt) == Min(BackoffCap, BackoffBase * Pow2(attempt))

\* _backoff: the seconds slept after a retryable answer to attempt `attempt`
Backoff(attempt) == Min(BackoffCap, BackoffBase * Pow2(attempt - 1))

\* a retry test that takes every failure for a transient one
IsRetryableAnyFailure(status) == status # StatusOk

\* line 140
IsRetryable(status) == status \in RetryableStatuses

\* a loop over range(1, max_retries), one attempt short
AttemptsLeftOneShort(a, max_retries) == a < max_retries

\* line 136: for a in range(1, max_retries+1)
AttemptsLeft(a, max_retries) == a <= max_retries

DgIdle ==
    [pc |-> "idle", url |-> "", max_retries |-> 0, a |-> 0,
     statusLog |-> <<>>, sleeps |-> <<>>, result |-> <<>>, error |-> <<>>]

\* a dataverse_get whose attempt counter goes on from where the call
\* before it stopped
DgCallCarryOver(url, max_retries) ==
    [pc |-> "loop", url |-> url, max_retries |-> max_retries,
     a |-> IF dg.a = 0 THEN 1 ELSE dg.a,
     statusLog |-> <<>>, sleeps |-> <<>>, result |-> <<>>, error |-> <<>>]

\* entering dataverse_get(url, max_retries=...)
DgCall(url, max_retries) ==
    [pc |-> "loop", url |-> url, max_retries |-> max_retries, a |-> 1,
     statusLog |-> <<>>, sleeps |-> <<>>, result |-> <<>>, error |-> <<>>]

\* lines 142-146: RuntimeError(f"GET failed {r.status_code}: {details}")
GetFailed(resp) ==
    [exc |-> "RuntimeError", text |-> "GET failed",
     status |-> <<resp.status_code>>,
     details |-> IF resp.json # <<>> THEN resp.json ELSE <<resp.text>>]

\* line 147
ExceededRetries ==
    [exc |-> "RuntimeError", text |-> "Exceeded retries for GET.",
     status |-> <<>>, details |-> <<>>]

\* the running fetch_all generator counts the GETs issued on its behalf
CountGet ==
    gens' = IF cur = "none" THEN gens
            ELSE [gens EXCEPT ![cur].gets = @ + 1]

\* a dataverse_get that hands a retryable answer's error body to its caller
\* instead of retrying
DgAttemptTransientReturned(resp) ==
    /\ dg.pc = "loop"
    /\ AttemptsLeft(dg.a, dg.max_retries)
    /\ LET logged == [dg EXCEPT !.statusLog = Append(@, resp.status_code)]
       IN  dg' = IF resp.status_code = StatusOk
                 THEN [logged EXCEPT !.pc = "returned", !.result = resp.json]
                 ELSE IF IsRetryable(resp.status_code)
                 THEN [logged EXCEPT !.pc = "returned",
                                     !.result = <<("error" :> resp.text)>>]
                 ELSE [logged EXCEPT !.pc = "raised", !.error = <<GetFailed(resp)>>]
    /\ CountGet
    /\ faultsLeft' = IF resp.status_code = StatusOk \/ faultsLeft = 0
                     THEN faultsLeft ELSE faultsLeft - 1
    /\ UNCHANGED <<cfgVars, runs, pages, serverStatuses, cfg, token, pc, dfs, tables, written,
                   ts, cur, err>>

\* line 137 and what follows the answer of one attempt
DgAttempt(resp) ==
    /\ dg.pc = "loop"
    /\ AttemptsLeft(dg.a, dg.max_retries)
    /\ LET logged == [dg EXCEPT !.statusLog = Append(@, resp.status_code)]
       IN  dg' = IF resp.status_code = StatusOk
                 THEN [logged EXCEPT !.pc = "returned", !.result = resp.json]
                 ELSE IF IsRetryable(resp.status_code)
                 THEN [logged EXCEPT !.pc = "backoff"]
                 ELSE [logged EXCEPT !.pc = "raised", !.error = <<GetFailed(resp)>>]
    /\ CountGet
    /\ faultsLeft' = IF resp.status_code = StatusOk \/ faultsLeft = 0
                     THEN faultsLeft ELSE faultsLeft - 1
    /\ UNCHANGED <<cfgVars, runs, pages, serverStatuses, cfg, token, pc, dfs, tables, written,
                   ts, cur, err>>

\* lines 137-139: the attempt is answered 200
DgGetOk ==
    /\ dg.pc = "loop"
    /\ \E resp \in ServerResponses(RESOURCE, dg.url) :
        resp.status_code = StatusOk /\ DgAttempt(resp)

\* lines 137-141: the attempt is answered with a retryable status
DgGetRetryable ==
    /\ dg.pc = "loop"
    /\ \E resp \in ServerResponses(RESOURCE, dg.url) :
        IsRetryable(resp.status_code) /\ DgAttempt(resp)

\* lines 137-146: the attempt is answered with any other status
DgGetFatal ==
    /\ dg.pc = "loop"
    /\ \E resp \in ServerResponses(RESOURCE, dg.url) :
        /\ resp.status_code # StatusOk
        /\ ~IsRetryable(resp.status_code)
        /\ DgAttempt(resp)

\* line 141: _backoff(a); continue
DgBackoff ==
    /\ dg.pc = "backoff"
    /\ dg' = [dg EXCEPT !.sleeps = Append(@, Backoff(dg.a)), !.a = @ + 1, !.pc = "loop"]
    /\ UNCHANGED <<cfgVars, runs, serverVars, cfg, token, pc, dfs, tables, written,
                   ts, gens, cur, err>>

\* line 147: the loop ran out of attempts
DgExceeded ==
    /\ dg.pc = "loop"
    /\ ~AttemptsLeft(dg.a, dg.max_retries)
    /\ dg' = [dg EXCEPT !.pc = "raised", !.error = <<ExceededRetries>>]
    /\ UNCHANGED <<cfgVars, runs, serverVars, cfg, token, pc, dfs, tables, written,
                   ts, gens, cur, err>>

(***************************************************************************)
(* Paged fetcher: the generator fetch_all (lines 157-166).                 *)
(*                                                                         *)
(* A generator runs only while its consumer asks it for the next row; cur  *)
(* names the generator that is running.                                    *)
(***************************************************************************)
NoGen ==
    [pc |-> "none", entity_set |-> "", url |-> "", data |-> <<>>, idx |-> 0,
     urls |-> <<>>, gets |-> 0]

\* fetch_all(entity_set, ...): the generator object; its body has not started
NewGen(entity_set) ==
    [pc |-> "created", entity_set |-> entity_set, url |-> "", data |-> <<>>, idx |-> 0,
     urls |-> <<>>, gets |-> 0]

\* line 161: data.get("value", [])
Rows(data) == DictGet(data, "value", <<>>)

\* a lookup of the continuation link under a key the body never has
NextLinkWrongKey(data) ==
    IF "odata.nextLink" \in DOMAIN data THEN <<data["odata.nextLink"]>> ELSE <<>>

\* line 163: data.get("@odata.nextLink"), None as <<>>
NextLink(data) ==
    IF "@odata.nextLink" \in DOMAIN data THEN <<data["@odata.nextLink"]>> ELSE <<>>

\* an exception leaves the running call and reaches the top level
Raise(exception) ==
    /\ err' = exception
    /\ pc' = IF pc = "none" THEN pc ELSE "failed"

\* lines 158-160: the first next() builds the URL and requests the first page
GenStart ==
    /\ cur # "none"
    /\ gens[cur].pc = "created"
    /\ LET url == FirstUrl(RESOURCE, gens[cur].entity_set)
       IN  /\ gens' = [gens EXCEPT ![cur].pc = "call", ![cur].url = url,
                                   ![cur].urls = <<url>>]
           /\ dg' = DgCall(url, DefaultMaxRetries)
    /\ UNCHANGED <<cfgVars, runs, serverVars, cfg, token, pc, dfs, tables, written,
                   ts, cur, err>>

\* line 160: data = dataverse_get(url) returns
GenData ==
    /\ cur # "none"
    /\ gens[cur].pc = "call"
    /\ dg.pc = "returned"
    /\ gens' = [gens EXCEPT ![cur].pc = "iter", ![cur].data = dg.result, ![cur].idx = 1]
    /\ dg' = [dg EXCEPT !.pc = "idle"]
    /\ UNCHANGED <<cfgVars, runs, serverVars, cfg, token, pc, dfs, tables, written,
                   ts, cur, err>>

\* a fetch_all that swallows the error of dataverse_get and ends as if the
\* stream were over
GenRaiseSwallowed ==
    /\ cur # "none"
    /\ gens[cur].pc = "call"
    /\ dg.pc = "raised"
    /\ gens' = [gens EXCEPT ![cur].pc = "raised"]
    /\ dg' = [dg EXCEPT !.pc = "idle"]
    /\ ts' = [ts EXCEPT !.pc = IF cur = "it" THEN "sampled" ELSE "drained"]
    /\ cur' = "none"
    /\ UNCHANGED <<cfgVars, runs, serverVars, cfg, token, pc, dfs, tables, written, err>>

\* line 160: dataverse_get raises; the exception passes through the
\* generator and through dataverse_to_spark, which handle nothing
GenRaise ==
    /\ cur # "none"
    /\ gens[cur].pc = "call"
    /\ dg.pc = "raised"
    /\ gens' = [gens EXCEPT ![cur].pc = "raised"]
    /\ dg' = [dg EXCEPT !.pc = "idle"]
    /\ ts' = [ts EXCEPT !.pc = "raised"]
    /\ cur' = "none"
    /\ Raise(dg.error)
    /\ UNCHANGED <<cfgVars, runs, serverVars, cfg, token, dfs, tables, written>>

\* the row the running generator yields next
HasRow(g) == /\ g.pc = "iter"
             /\ g.idx <= Len(Rows(g.data[1]))

\* lines 161-162 into lines 174-177: the sampling loop takes the row `it`
\* yields, and breaks once the sample holds sample_rows rows
SampleRow ==
    /\ cur = "it"
    /\ HasRow(gens[cur])
    /\ LET sample == Append(ts.sample, Rows(gens[cur].data[1])[gens[cur].idx])
       IN  IF Len(sample) >= ts.sample_rows
           THEN /\ ts' = [ts EXCEPT !.sample = sample, !.pc = "sampled"]
                /\ cur' = "none"
           ELSE /\ ts' = [ts EXCEPT !.sample = sample]
                /\ cur' = cur
    /\ gens' = [gens EXCEPT ![cur].idx = @ + 1]
    /\ UNCHANGED <<cfgVars, runs, serverVars, cfg, token, pc, dfs, tables, written,
                   dg, err>>

\* lines 161-162 into line 185: list(...) takes the row its generator yields
RestRow ==
    /\ cur = "rest"
    /\ HasRow(gens[cur])
    /\ ts' = [ts EXCEPT !.rest = Append(@, Rows(gens[cur].data[1])[gens[cur].idx])]
    /\ gens' = [gens EXCEPT ![cur].idx = @ + 1]
    /\ UNCHANGED <<cfgVars, runs, serverVars, cfg, token, pc, dfs, tables, written,
                   cur, dg, err>>

\* a fetch_all that asks for the next page while rows of the current one
\* are still to be yielded
PageDoneEager(g) == g.pc = "iter"

\* the page is used up
PageDone(g) == /\ g.pc = "iter"
               /\ g.idx > Len(Rows(g.data[1]))

\* lines 163-166 and 160: a continuation link: request exactly that link
GenNextPage ==
    /\ cur # "none"
    /\ PageDone(gens[cur])
    /\ Truthy(NextLink(gens[cur].data[1]))
    /\ LET url == NextLink(gens[cur].data[1])[1]
       IN  /\ gens' = [gens EXCEPT ![cur].pc = "call", ![cur].url = url,
                                   ![cur].urls = Append(@, url)]
           /\ dg' = DgCall(url, DefaultMaxRetries)
    /\ UNCHANGED <<cfgVars, runs, serverVars, cfg, token, pc, dfs, tables, written,
                   ts, cur, err>>

\* lines 163-165: no continuation link: the generator ends, and with it the
\* loop that consumes it
GenStop ==
    /\ cur # "none"
    /\ PageDone(gens[cur])
    /\ ~Truthy(NextLink(gens[cur].data[1]))
    /\ gens' = [gens EXCEPT ![cur].pc = "done"]
    /\ ts' = [ts EXCEPT !.pc = IF cur = "it" THEN "sampled" ELSE "drained"]
    /\ cur' = "none"
    /\ UNCHANGED <<cfgVars, runs, serverVars, cfg, token, pc, dfs, tables, written,
                   dg, err>>

(***************************************************************************)
(* Schema inference and materialization: dataverse_to_spark                *)
(* (lines 170-190).                                                        *)
(***************************************************************************)
TsIdle ==
    [pc |-> "idle", entity_set |-> "", sample_rows |-> 0, sample |-> <<>>,
     rest |-> <<>>, sdf |-> <<>>, result |-> <<>>]

\* lines 172-173: the frame on entry
ToSparkFrame(entity_set, sample_rows) ==
    [pc |-> "sampling", entity_set |-> entity_set, sample_rows |-> sample_rows,
     sample |-> <<>>, rest |-> <<>>, sdf |-> <<>>, result |-> <<>>]

\* a dataverse_to_spark without the empty-sample check
SampleIsEmptyUnchecked(sample) == FALSE

\* line 178: if not sample
SampleIsEmpty(sample) == sample = <<>>

\* Spark cannot infer a schema from a pandas frame without columns
CreateDataFrameRaises(records) == JsonNormalize(records).columns = {}

SchemaError ==
    [exc |-> "ValueError", text |-> "can not infer schema from empty dataset",
     status |-> <<>>, details |-> <<>>]

\* lines 178-179: an empty sample returns the empty DataFrame
SampleEmpty ==
    /\ ts.pc = "sampled"
    /\ SampleIsEmpty(ts.sample)
    /\ ts' = [ts EXCEPT !.pc = "returned", !.result = <<EmptyDataFrame>>]
    /\ UNCHANGED <<cfgVars, runs, serverVars, cfg, token, pc, dfs, tables, written,
                   gens, cur, dg, err>>

\* lines 181-185: the sample becomes sdf; then list(fetch_all(...)) starts
\* a generator of its own, which `rest` is drained from
SampleFrame ==
    /\ ts.pc = "sampled"
    /\ ~SampleIsEmpty(ts.sample)
    /\ IF CreateDataFrameRaises(ts.sample)
       THEN /\ ts' = [ts EXCEPT !.pc = "raised"]
            /\ Raise(<<SchemaError>>)
            /\ UNCHANGED <<gens, cur>>
       ELSE /\ ts' = [ts EXCEPT !.pc = "draining", !.sdf = <<ToDataFrame(ts.sample)>>]
            /\ gens' = [gens EXCEPT !["rest"] = NewGen(ts.entity_set)]
            /\ cur' = "rest"
            /\ UNCHANGED <<pc, err>>
    /\ UNCHANGED <<cfgVars, runs, serverVars, cfg, token, dfs, tables, written, dg>>

\* lines 186-190: a non-empty rest is merged into sdf; sdf is returned
RestDone ==
    /\ ts.pc = "drained"
    /\ ts' = [ts EXCEPT !.pc = "returned",
                        !.result = IF ts.rest # <<>>
                                   THEN <<UnionByName(ts.sdf[1], ToDataFrame(ts.rest))>>
                                   ELSE ts.sdf]
    /\ UNCHANGED <<cfgVars, runs, serverVars, cfg, token, pc, dfs, tables, written,
                   gens, cur, dg, err>>

(***************************************************************************)
(* The notebook's cells in order (lines 80-225).                           *)
(***************************************************************************)
\* a notebook that writes each table right after pulling it
NextCellInterleaved(cell) ==
    CASE cell = "get_cfg" -> "get_access_token"
      [] cell = "get_access_token" -> "pull_recipe"
      [] cell = "pull_recipe" -> "write_recipe"
      [] cell = "write_recipe" -> "pull_components"
      [] cell = "pull_components" -> "write_components"
      [] cell = "write_components" -> "done"

\* the cell run after `cell`
NextCell(cell) ==
    CASE cell = "get_cfg" -> "get_access_token"
      [] cell = "get_access_token" -> "pull_recipe"
      [] cell = "pull_recipe" -> "pull_components"
      [] cell = "pull_components" -> "write_recipe"
      [] cell = "write_recipe" -> "write_components"
      [] cell = "write_components" -> "done"

PullCells == {"pull_recipe", "pull_components"}

WriteCells == {"write_recipe", "write_components"}

\* the destination table a pull or write cell is about
TableOf(cell) ==
    IF cell \in {"pull_recipe", "write_recipe"} THEN "zz_recipe" ELSE "zz_components"

TokenUnset == [state |-> "unset", requests |-> 0]

TokenError ==
    [exc |-> "RuntimeError", text |-> "Token acquisition failed",
     status |-> <<>>, details |-> <<("error" :> "invalid_client")>>]

\* what MSAL may answer: None (<<>>), a result with an access token, or a
\* result without one
TokenResult == ("access_token" :> "eyJ")

TokenFailure == ("error" :> "invalid_client")

\* a get_access_token without the check of line 106: the notebook goes on
\* whatever MSAL answered
GetAccessTokenUnchecked ==
    /\ pc = "get_access_token"
    /\ \E silent \in {<<>>, <<TokenResult>>}, client \in {TokenResult, TokenFailure} :
        LET result == IF silent # <<>> THEN silent[1] ELSE client
            asked  == IF silent # <<>> THEN 0 ELSE 1
        IN  /\ token' = [state |-> IF "access_token" \in DOMAIN result THEN "ok" ELSE "raised",
                         requests |-> token.requests + asked]
            /\ err' = err
            /\ pc' = NextCell(pc)
    /\ UNCHANGED <<cfgVars, runs, serverVars, cfg, dfs, tables, written, ts, gens, cur, dg>>

\* lines 96-110: token = get_access_token(...)
GetAccessToken ==
    /\ pc = "get_access_token"
    /\ \E silent \in {<<>>, <<TokenResult>>}, client \in {TokenResult, TokenFailure} :
        LET result == IF silent # <<>> THEN silent[1] ELSE client
            asked  == IF silent # <<>> THEN 0 ELSE 1
        IN  IF "access_token" \notin DOMAIN result
            THEN /\ token' = [state |-> "raised", requests |-> token.requests + asked]
                 /\ err' = <<TokenError>>
                 /\ pc' = "failed"
            ELSE /\ token' = [state |-> "ok", requests |-> token.requests + asked]
                 /\ err' = err
                 /\ pc' = NextCell(pc)
    /\ UNCHANGED <<cfgVars, runs, serverVars, cfg, dfs, tables, written, ts, gens, cur, dg>>

\* lines 217-218: dataverse_to_spark(entity, select=None, filter_=None) is
\* entered
PullCall ==
    /\ pc \in PullCells
    /\ ts.pc = "idle"
    /\ ts' = ToSparkFrame(ENTITY_SETS[TableOf(pc)], DefaultSampleRows)
    /\ gens' = [it |-> NewGen(ENTITY_SETS[TableOf(pc)]), rest |-> NoGen]
    /\ cur' = "it"
    /\ dg' = DgIdle
    /\ UNCHANGED <<cfgVars, runs, serverVars, cfg, token, pc, dfs, tables, written, err>>

\* lines 217-218: the call returns and the DataFrame is bound
PullReturn ==
    /\ pc \in PullCells
    /\ ts.pc = "returned"
    /\ dfs' = [dfs EXCEPT ![TableOf(pc)] = ts.result]
    /\ ts' = TsIdle
    /\ pc' = NextCell(pc)
    /\ UNCHANGED <<cfgVars, runs, serverVars, cfg, token, tables, written, gens, cur, dg, err>>

\* a write in append mode: the rows of an existing table are kept
WriteTableAppend ==
    /\ pc \in WriteCells
    /\ tables' = [tables EXCEPT ![TableOf(pc)] =
                    IF @ = <<>> THEN dfs[TableOf(pc)]
                    ELSE <<UnionByName(@[1], dfs[TableOf(pc)][1])>>]
    /\ written' = written \cup {TableOf(pc)}
    /\ pc' = NextCell(pc)
    /\ UNCHANGED <<cfgVars, runs, serverVars, cfg, token, dfs, ts, gens, cur, dg, err>>

\* lines 224-225: df.write.format("delta").mode("overwrite").saveAsTable(name)
WriteTable ==
    /\ pc \in WriteCells
    /\ tables' = [tables EXCEPT ![TableOf(pc)] = dfs[TableOf(pc)]]
    /\ written' = written \cup {TableOf(pc)}
    /\ pc' = NextCell(pc)
    /\ UNCHANGED <<cfgVars, runs, serverVars, cfg, token, dfs, ts, gens, cur, dg, err>>

\* the notebook is run again from its first cell once a run has completed:
\* the globals are unbound anew; the catalog and the server stay as they are
Rerun ==
    /\ pc = "done"
    /\ runs = <<>>
    /\ runs' = Append(runs, tables)
    /\ pc' = "get_cfg"
    /\ cfg' = CfgUnset
    /\ token' = TokenUnset
    /\ dfs' = [t \in TableNames |-> <<>>]
    /\ written' = {}
    /\ ts' = TsIdle
    /\ gens' = [it |-> NoGen, rest |-> NoGen]
    /\ cur' = "none"
    /\ dg' = DgIdle
    /\ UNCHANGED <<cfgVars, serverVars, tables, err>>

(***************************************************************************)
(* The outside world and the initial states.                               *)
(***************************************************************************)
\* every stream of up to n records of the pool
Streams(pool, n) == UNION {[1..k -> pool] : k \in 0..n}

\* the server cuts a stream into pages of pageSize records (one empty page
\* for an empty stream); the last page's link is lastLink ("absent" or
\* "empty"); an empty page may leave "value" out
Paginate(stream, pageSize, lastLink, omitEmpty) ==
    LET n == IF stream = <<>> THEN 1 ELSE (Len(stream) + pageSize - 1) \div pageSize
    IN  [i \in 1..n |->
            LET rows == SubSeq(stream, (i - 1) * pageSize + 1, Min(i * pageSize, Len(stream)))
            IN  [rows |-> rows,
                 omitValue |-> omitEmpty /\ rows = <<>>,
                 link |-> IF i < n THEN "next" ELSE lastLink]]

ServedDatasets(maxRecords) ==
    {Paginate(stream, pageSize, lastLink, omitEmpty) :
        stream \in Streams(RecordPool, maxRecords), pageSize \in 1..MaxPageSize,
        lastLink \in {"absent", "empty"}, omitEmpty \in BOOLEAN}

\* the records of a dataset, in the order served
RECURSIVE Concat(_)
Concat(rowss) == IF rowss = <<>> THEN <<>> ELSE Head(rowss) \o Concat(Tail(rowss))

StreamOf(dataset) == Concat([i \in DOMAIN dataset |-> dataset[i].rows])

\* a secret store and widgets, from what each holds per key
SecretStore(kinds) ==
    [name \in SecretNames |->
        LET k == CHOOSE key \in CfgKeySet : SecretName(key) = name
        IN  CASE kinds[k] = "absent" -> <<>>
              [] kinds[k] = "blank" -> <<"">>
              [] kinds[k] = "set" -> <<SecretValue(k)>>]

Widgets(kinds) == [k \in CfgKeySet |-> IF kinds[k] = "set" THEN WidgetValue(k) ELSE ""]

AllSecrets == SecretStore([k \in CfgKeySet |-> "set"])

NoWidgets == Widgets([k \in CfgKeySet |-> "blank"])

\* no call is running and the notebook's globals are unbound
InitFrames ==
    /\ dfs = [t \in TableNames |-> <<>>]
    /\ tables = [t \in TableNames |-> <<>>]
    /\ written = {}
    /\ err = <<>>
    /\ runs = <<>>

OnePage == Paginate(<<RecA>>, 1, "absent", FALSE)

\* get_cfg over every content of the secret store and the widgets
InitCfg ==
    /\ dbutilsOk \in BOOLEAN
    /\ \E kinds \in [CfgKeySet -> {"absent", "blank", "set"}] : secrets = SecretStore(kinds)
    /\ \E kinds \in [CfgKeySet -> {"blank", "set"}] : widgets = Widgets(kinds)
    /\ cfg = CfgUnset
    /\ token = TokenUnset
    /\ pages = [e \in EntityNames |-> OnePage]
    /\ serverStatuses = {}
    /\ faultsLeft = 0
    /\ pc = "get_cfg"
    /\ ts = TsIdle
    /\ gens = [it |-> NoGen, rest |-> NoGen]
    /\ cur = "none"
    /\ dg = DgIdle
    /\ InitFrames

\* the state the notebook is in once configured from the secret store and
\* authenticated
Configured ==
    /\ dbutilsOk = TRUE
    /\ secrets = AllSecrets
    /\ widgets = NoWidgets
    /\ cfg = [state |-> "ok", values |-> ResolveCfg(TRUE, AllSecrets, NoWidgets),
              missing |-> <<>>]
    /\ token = [state |-> "ok", requests |-> 1]

\* one call dataverse_get(url, max_retries=m) against a server that fails
\* with two of the retryable statuses and with the fatal ones
InitGet ==
    /\ Configured
    /\ pages = [e \in EntityNames |-> OnePage]
    /\ \E transient \in SUBSET RetryableStatuses :
        /\ Cardinality(transient) = 2
        /\ serverStatuses = transient \cup FatalStatuses
    /\ faultsLeft = MaxRetriesArg
    /\ pc = "none"
    /\ ts = TsIdle
    /\ gens = [it |-> NoGen, rest |-> NoGen]
    /\ cur = "none"
    /\ \E m \in 0..MaxRetriesArg :
        dg = DgCall(FirstUrl(SecretValue("dataverse_url"), "zz_Recipe"), m)
    /\ InitFrames

\* the datasets of the notebook run: streams of up to MaxJobRecords records
\* of the pool, served one record a page
JobDatasets(pool) ==
    {Paginate(stream, 1, "absent", FALSE) : stream \in Streams(pool, MaxJobRecords)}

\* the failure statuses the server of the paged runs answers with
PagedStatuses == {503, 404}

\* one call dataverse_to_spark("zz_Recipe", sample_rows=s) over every
\* served dataset
InitSpark ==
    /\ Configured
    /\ \E dataset \in ServedDatasets(MaxRecords) :
        pages = [e \in EntityNames |-> IF e = "zz_Recipe" THEN dataset ELSE OnePage]
    /\ serverStatuses = PagedStatuses
    /\ faultsLeft = MaxFaults
    /\ pc = "none"
    /\ \E s \in 1..MaxSampleRows : ts = ToSparkFrame("zz_Recipe", s)
    /\ gens = [it |-> NewGen("zz_Recipe"), rest |-> NoGen]
    /\ cur = "it"
    /\ dg = DgIdle
    /\ InitFrames

\* one call dataverse_to_spark("zz_Recipe", sample_rows=1) over the streams
\* of one kind of record, served one record a page
InitFetch ==
    /\ Configured
    /\ \E stream \in Streams({RecA}, MaxRecords), lastLink \in {"absent", "empty"} :
        pages = [e \in EntityNames |->
                    IF e = "zz_Recipe" THEN Paginate(stream, 1, lastLink, FALSE) ELSE OnePage]
    /\ serverStatuses = PagedStatuses
    /\ faultsLeft = MaxFaults
    /\ pc = "none"
    /\ ts = ToSparkFrame("zz_Recipe", 1)
    /\ gens = [it |-> NewGen("zz_Recipe"), rest |-> NoGen]
    /\ cur = "it"
    /\ dg = DgIdle
    /\ InitFrames

\* the notebook run: configured from the secret store, from the widgets, or
\* from neither
Init ==
    /\ dbutilsOk = TRUE
    /\ \E source \in {"secrets", "widgets", "neither"} :
        /\ secrets = SecretStore([k \in CfgKeySet |->
                                    IF source = "secrets" THEN "set" ELSE "absent"])
        /\ widgets = Widgets([k \in CfgKeySet |->
                                IF source = "widgets" THEN "set" ELSE "blank"])
    /\ cfg = CfgUnset
    /\ token = TokenUnset
    /\ \E recipes \in JobDatasets({RecA, RecB}), components \in JobDatasets({RecC}) :
        pages = [e \in EntityNames |-> IF e = "zz_Recipe" THEN recipes ELSE components]
    /\ serverStatuses = PagedStatuses
    /\ faultsLeft = MaxFaults
    /\ pc = "get_cfg"
    /\ ts = TsIdle
    /\ gens = [it |-> NoGen, rest |-> NoGen]
    /\ cur = "none"
    /\ dg = DgIdle
    /\ InitFrames

\* the notebook run twice: configured from the secret store, over every
\* zz_Recipe dataset of the single run and one zz_components record
InitRerun ==
    /\ dbutilsOk = TRUE
    /\ secrets = AllSecrets
    /\ widgets = NoWidgets
    /\ cfg = CfgUnset
    /\ token = TokenUnset
    /\ \E recipes \in JobDatasets({RecA, RecB}) :
        pages = [e \in EntityNames |->
                    IF e = "zz_Recipe" THEN recipes ELSE Paginate(<<RecC>>, 1, "absent", FALSE)]
    /\ serverStatuses = PagedStatuses
    /\ faultsLeft = MaxFaults
    /\ pc = "get_cfg"
    /\ ts = TsIdle
    /\ gens = [it |-> NoGen, rest |-> NoGen]
    /\ cur = "none"
    /\ dg = DgIdle
    /\ InitFrames

(***************************************************************************)
(* Specifications.                                                         *)
(***************************************************************************)
NextCfg == GetCfg

SpecCfg == InitCfg /\ [][NextCfg]_vars

NextGet ==
    \/ DgGetOk
    \/ DgGetRetryable
    \/ DgGetFatal
    \/ DgBackoff
    \/ DgExceeded

SpecGet == InitGet /\ [][NextGet]_vars

NextFetch ==
    \/ GenStart
    \/ GenData
    \/ GenRaise
    \/ GenNextPage
    \/ GenStop

NextSpark ==
    \/ NextGet
    \/ NextFetch
    \/ SampleRow
    \/ RestRow
    \/ SampleEmpty
    \/ SampleFrame
    \/ RestDone

SpecSpark == InitSpark /\ [][NextSpark]_vars

\* one call dataverse_to_spark("zz_Recipe", sample_rows=1) that keeps running
\* and whose every request the server answers: the notebook is one
\* sequential thread, which takes its next step while it has one
FairSpark == InitFetch /\ [][NextSpark]_vars /\ WF_vars(NextSpark)

Next ==
    \/ GetCfg
    \/ GetAccessToken
    \/ PullCall
    \/ PullReturn
    \/ WriteTable
    \/ NextSpark

Spec == Init /\ [][Next]_vars

\* the notebook run followed by a second run against the same server
NextRerun ==
    \/ Next
    \/ Rerun

SpecRerun == InitRerun /\ [][NextRerun]_vars

(***************************************************************************)
(* Properties of the retry policy (SpecGet).                               *)
(***************************************************************************)
\* the page the call of SpecGet asks for
GetBody == ServerBody(RESOURCE, "zz_Recipe", 1)

\* the backoff schedule as specified: 1s, 2s, 4s, 8s, 16s, then capped at 30s
ScheduledSleep(attempt) == IF attempt <= 5 THEN <<1, 2, 4, 8, 16>>[attempt] ELSE 30

TransientStatus(status) == status \in {429, 500, 502, 503, 504}

\* C3: when attempts 1..k are answered with a status in {429,500,502,503,504}
\* and attempt k+1 with 200 (0 <= k < max_retries), dataverse_get returns the
\* parsed body of the 200 answer after exactly k+1 attempts (no attempt
\* follows a 200), having slept min(30, 2^(a-1)) seconds after each attempt
\* a in 1..k and no more, so a total of their sum (k = 2: 1s + 2s).
C3_RetryThenSuccess ==
    LET n == Len(dg.statusLog)
    IN  /\ \A i \in 1..n : dg.statusLog[i] = 200 => i = n
        /\ (n >= 1 /\ dg.statusLog[n] = 200) =>
            /\ \A i \in 1..(n - 1) : TransientStatus(dg.statusLog[i])
            /\ n <= dg.max_retries
            /\ dg.pc = "returned"
            /\ dg.result = <<GetBody>>
            /\ dg.error = <<>>
            /\ dg.sleeps = [a \in 1..(n - 1) |-> ScheduledSleep(a)]
            /\ SumSeq(dg.sleeps) = SumSeq([a \in 1..(n - 1) |-> ScheduledSleep(a)])

\* C3 witness: 503 on attempts 1-2, 200 on attempt 3: returned after 1s + 2s
C3_Witness ==
    /\ dg.pc = "returned"
    /\ dg.statusLog = <<503, 503, 200>>
    /\ dg.sleeps = <<1, 2>>
    /\ SumSeq(dg.sleeps) = 3

\* C4: a call of dataverse_get never issues more than max_retries GETs; when
\* max_retries consecutive attempts are answered with a status in
\* {429,500,502,503,504} the call does not return and ends in the
\* retries-exceeded error, and that error is raised only then: after exactly
\* max_retries GETs, all of them answered with a retryable status.
C4_RetriesExceeded ==
    LET n == Len(dg.statusLog)
        allTransient == \A i \in 1..n : TransientStatus(dg.statusLog[i])
    IN  /\ n <= dg.max_retries
        /\ (n = dg.max_retries /\ allTransient) =>
            /\ dg.pc \in {"backoff", "loop", "raised"}
            /\ dg.result = <<>>
            /\ dg.pc = "raised" => dg.error = <<ExceededRetries>>
        /\ dg.error = <<ExceededRetries>> =>
            /\ dg.pc = "raised"
            /\ n = dg.max_retries
            /\ allTransient

\* C4 witness: five 503 answers with max_retries = 5 end in retries-exceeded
C4_Witness ==
    /\ dg.max_retries = 5
    /\ dg.statusLog = <<503, 503, 503, 503, 503>>
    /\ dg.pc = "raised"
    /\ dg.error = <<ExceededRetries>>

\* C5: an answer that is neither 200 nor in {429,500,502,503,504} ends the
\* call at once: it is the last answer the call receives (no further GET),
\* the call fails with the GET-failed error carrying that status, and no
\* backoff sleep follows it (one sleep per earlier answer); as the first
\* answer it gives exactly 1 attempt and 0 seconds of sleep.
C5_FatalStatusFailsAtOnce ==
    LET n == Len(dg.statusLog)
    IN  \A i \in 1..n :
            (dg.statusLog[i] # 200 /\ ~TransientStatus(dg.statusLog[i])) =>
                /\ i = n
                /\ dg.pc = "raised"
                /\ dg.error # <<>>
                /\ dg.error[1].text = "GET failed"
                /\ dg.error[1].status = <<dg.statusLog[i]>>
                /\ Len(dg.sleeps) = i - 1
                /\ i = 1 => SumSeq(dg.sleeps) = 0

\* C5 witness: 404 on the first attempt
C5_Witness ==
    /\ dg.statusLog = <<404>>
    /\ dg.pc = "raised"
    /\ dg.sleeps = <<>>

(***************************************************************************)
(* Properties of the paged fetcher and of dataverse_to_spark (SpecSpark).  *)
(***************************************************************************)
\* the entity set dataverse_to_spark is called on, and what the server holds
CalledSet == ts.entity_set

ServedPages == pages[CalledSet]

ServedStream == StreamOf(ServedPages)

\* every request a generator made was answered 200: it issued one GET per
\* call of dataverse_get
AllAnswered200(g) == g.gets = Len(g.urls)

\* what a generator has yielded: `it` feeds the sample, the generator of
\* line 185 feeds rest
Yielded(name) == IF name = "it" THEN ts.sample ELSE ts.rest

\* the flattened field names a record supplies
FieldSet(record) == DOMAIN Flatten(record)

\* a row represents a record: it carries a text exactly on the columns whose
\* field the record supplies with a value, and null on every other column
Represents(row, record) ==
    \A c \in DOMAIN row :
        row[c] # <<>> <=> (c \in FieldSet(record) /\ ~IsMissing(Flatten(record)[c]))

\* C1: when every page request is answered 200, the table dataverse_to_spark
\* returns has exactly N rows, one per record of the entity set: row i
\* represents record i, no record is missing and none appears twice.
C1_OneRowPerRecord ==
    (ts.pc = "returned" /\ AllAnswered200(gens["it"]) /\ AllAnswered200(gens["rest"])) =>
        /\ Len(ts.result[1].rows) = Len(ServedStream)
        /\ \A i \in 1..Len(ServedStream) : Represents(ts.result[1].rows[i], ServedStream[i])

\* C2: a fully consumed fetch_all whose requests were all answered 200 has
\* yielded exactly the concatenation of the "value" records of P1..Pn in
\* order, has issued exactly n GETs, the first for the URL built from the
\* entity set and the i-th (i > 1) for exactly the continuation link page
\* i-1 returned.
C2_Pagination ==
    \A name \in {"it", "rest"} :
        (gens[name].pc = "done" /\ AllAnswered200(gens[name])) =>
            LET n == Len(ServedPages)
            IN  /\ Yielded(name) = ServedStream
                /\ gens[name].gets = n
                /\ Len(gens[name].urls) = n
                /\ gens[name].urls[1] = FirstUrl(RESOURCE, CalledSet)
                /\ \A i \in 2..n :
                    gens[name].urls[i] =
                        ServerBody(RESOURCE, CalledSet, i - 1)["@odata.nextLink"]

\* C2 witness: two pages, the second reached through the first's link
C2_Witness ==
    /\ gens["rest"].pc = "done"
    /\ AllAnswered200(gens["rest"])
    /\ Len(ServedPages) = 2
    /\ gens["rest"].gets = 2
    /\ ts.rest = <<RecA, RecB>>

\* C8: the second batch is exactly the records that follow the sample
\* (positions sample_rows+1..N of the stream); when N <= sample_rows it is
\* empty and nothing is merged into the sample's table.
C8_SecondBatchIsRemainder ==
    (gens["rest"].pc = "done" /\ AllAnswered200(gens["it"]) /\ AllAnswered200(gens["rest"])) =>
        /\ ts.rest = SubSeq(ServedStream, Len(ts.sample) + 1, Len(ServedStream))
        /\ (Len(ServedStream) <= ts.sample_rows /\ ts.pc = "returned") =>
            /\ ts.rest = <<>>
            /\ ts.result = ts.sdf

\* an entity set of zero records: one page, its "value" empty or absent,
\* and no continuation link
ZeroRecords ==
    /\ Len(ServedPages) = 1
    /\ ServedPages[1].rows = <<>>
    /\ ServedPages[1].link # "next"

\* C9: once the first page of an entity set of zero records has arrived,
\* dataverse_to_spark raises nothing, never builds a batch, and what it
\* returns is the table with zero rows and zero columns.
C9_EmptyEntitySet ==
    (ZeroRecords /\ gens["it"].pc \in {"iter", "done"}) =>
        /\ ts.pc \in {"sampling", "sampled", "returned"}
        /\ err = <<>>
        /\ gens["rest"].pc = "none"
        /\ ts.pc = "returned" => ts.result = <<[columns |-> {}, rows |-> <<>>]>>

\* C9 witness: the page has no "value" at all, and the call has returned
C9_Witness ==
    /\ ZeroRecords
    /\ ServedPages[1].omitValue
    /\ ts.pc = "returned"
    /\ ts.result[1].rows = <<>>

\* the records that went into the returned table: both batches
Ingested == ts.sample \o ts.rest

\* C10: the columns of the returned table are the union of the field sets
\* of all ingested records (sample and second batch), which is the union
\* over the records of the entity set; row i belongs to ingested record i
\* and is null on every column that record did not supply.
C10_ColumnUnion ==
    (ts.pc = "returned") =>
        LET df == ts.result[1]
        IN  /\ df.columns = UNION {FieldSet(Ingested[i]) : i \in DOMAIN Ingested}
            /\ gens["rest"].pc = "done" =>
                df.columns = UNION {FieldSet(ServedStream[i]) : i \in DOMAIN ServedStream}
            /\ Len(df.rows) = Len(Ingested)
            /\ \A i \in DOMAIN df.rows :
                /\ DOMAIN df.rows[i] = df.columns
                /\ \A c \in df.columns :
                    c \notin FieldSet(Ingested[i]) => df.rows[i][c] = <<>>
                /\ Represents(df.rows[i], Ingested[i])

\* C10 witness: RecA and RecB have disjoint field sets; the sample is RecA
\* alone, RecB arrives with the second batch, and each row is null on the
\* other record's fields
C10_Witness ==
    /\ ts.pc = "returned"
    /\ ts.sample = <<RecA>>
    /\ RecB \in Range(ts.rest)
    /\ FieldSet(RecA) \cap FieldSet(RecB) = {}
    /\ ts.result[1].columns = {"name", "qty", "owner.id", "owner.name"}
    /\ ts.result[1].rows[1]["owner.id"] = <<>>
    /\ ts.result[1].rows[1]["name"] = <<"Epoxy">>

(***************************************************************************)
(* Properties of the notebook run (Spec).                                  *)
(***************************************************************************)
\* the fetch of the second entity set (zz_components) has failed
SecondFetchFailed ==
    /\ ts.pc = "raised"
    /\ ts.entity_set = ENTITY_SETS["zz_components"]

\* a request for the second entity set has been issued
SecondFetchRequested ==
    \E name \in {"it", "rest"} :
        /\ gens[name].entity_set = ENTITY_SETS["zz_components"]
        /\ gens[name].gets > 0

\* C6 as claimed: when fetching the second entity set fails, zz_recipe has
\* already been written, the write of entity set 1 preceding every fetch
\* request for entity set 2.
C6_FirstWriteBeforeSecondFetch ==
    /\ SecondFetchFailed => (tables["zz_recipe"] # <<>> /\ "zz_recipe" \in written)
    /\ SecondFetchRequested => "zz_recipe" \in written

\* C6 as amended: both entity sets are fetched before either table is
\* written.  When a fetch fails (the second entity set's included) the run
\* has written no destination table, zz_recipe neither; a table is written
\* only after both DataFrames are bound, zz_recipe first, and no fetch is
\* running or follows by then.
C6_FetchesPrecedeWrites ==
    /\ ts.pc = "raised" =>
        /\ written = {}
        /\ \A t \in TableNames : tables[t] = <<>>
        /\ pc = "failed"
    /\ written # {} =>
        /\ \A t \in TableNames : dfs[t] # <<>>
        /\ "zz_recipe" \in written
        /\ pc \in {"write_components", "done"}
        /\ ts.pc = "idle"
        /\ cur = "none"
        /\ dg.pc = "idle"
    /\ \A t \in written : tables[t] = dfs[t]

\* C6 witness: zz_Recipe was fetched and bound, the fetch of zz_components
\* failed, and nothing has been written
C6_Witness ==
    /\ SecondFetchFailed
    /\ SecondFetchRequested
    /\ pc = "failed"
    /\ dfs["zz_recipe"] # <<>>
    /\ written = {}
    /\ tables["zz_recipe"] = <<>>

(***************************************************************************)
(* Properties of get_cfg (SpecCfg).                                        *)
(***************************************************************************)
\* the secret store supplies key k: dbutils resolves and the secret holds a text
SecretSupplies(k) ==
    /\ dbutilsOk
    /\ secrets[SecretName(k)] # <<>>
    /\ secrets[SecretName(k)][1] # ""

WidgetSupplies(k) == widgets[k] # ""

SuppliedByNeither == {k \in CfgKeySet : ~SecretSupplies(k) /\ ~WidgetSupplies(k)}

\* C7: get_cfg takes each value from the secret store when the store
\* supplies it and from the widget otherwise; it fails exactly when some
\* value is supplied by neither, and the error lists exactly those values.
C7_MissingIsSuppliedByNeither ==
    (cfg.state # "unset") =>
        /\ cfg.state = "raised" <=> SuppliedByNeither # {}
        /\ cfg.state = "raised" => Range(cfg.missing) = SuppliedByNeither
        /\ cfg.state = "ok" =>
            \A k \in CfgKeySet :
                cfg.values[k] = IF SecretSupplies(k) THEN secrets[SecretName(k)]
                                ELSE <<widgets[k]>>


(***************************************************************************)
(* Transient failures and the caller (SpecSpark).                          *)
(***************************************************************************)
\* a generator needed a retry: it issued more GETs than it made requests
Retried(g) == g.gets > Len(g.urls)

\* what the run in which every request is answered 200 at once yields and
\* returns, for the served stream and sample_rows: the sampling loop takes
\* the first sample_rows records, list(fetch_all(...)) the whole stream
FaultFreeSample == SubSeq(ServedStream, 1, Min(ts.sample_rows, Len(ServedStream)))

FaultFreeRest == IF FaultFreeSample = <<>> THEN <<>> ELSE ServedStream

FaultFreeTable ==
    IF FaultFreeSample = <<>> THEN EmptyDataFrame
    ELSE IF FaultFreeRest = <<>> THEN ToDataFrame(FaultFreeSample)
    ELSE UnionByName(ToDataFrame(FaultFreeSample), ToDataFrame(FaultFreeRest))

\* C11: transient failures are invisible to the caller.  Whatever retryable
\* answers came first, a fetch_all that ran to its end has yielded the
\* served stream, the sample and the second batch are those of the run
\* answered 200 throughout, and so is the table dataverse_to_spark returns;
\* nothing reaches the top level.
C11_TransientFailuresInvisible ==
    /\ \A name \in {"it", "rest"} :
        gens[name].pc = "done" => Yielded(name) = ServedStream
    /\ ts.pc \in {"sampled", "draining", "drained", "returned"} =>
        ts.sample = FaultFreeSample
    /\ ts.pc \in {"drained", "returned"} => ts.rest = FaultFreeRest
    /\ ts.pc = "returned" =>
        /\ ts.result = <<FaultFreeTable>>
        /\ err = <<>>

\* C11 witness: both generators needed retries, and the call has returned
\* the table of two records' stream
C11_Witness ==
    /\ ts.pc = "returned"
    /\ Retried(gens["it"])
    /\ Retried(gens["rest"])
    /\ Len(ServedStream) = 2
    /\ ts.result = <<FaultFreeTable>>


(***************************************************************************)
(* Running the job twice (SpecRerun).                                      *)
(***************************************************************************)
\* the catalog as the first run left it
FirstRunTables == runs[1]

\* C12: a second run of the job against the unchanged dataset leaves each
\* destination table as the first run left it: before the second run's
\* overwrite the table is the first run's, after it the table has the same
\* columns and the same rows again, no row of the first run added to them.
C12_RerunIdempotent ==
    runs # <<>> =>
        \A t \in TableNames :
            /\ tables[t] = FirstRunTables[t]
            /\ t \in written =>
                /\ tables[t] = dfs[t]
                /\ tables[t][1].columns = FirstRunTables[t][1].columns
                /\ Len(tables[t][1].rows) = Len(FirstRunTables[t][1].rows)

\* C12 witness: the second run has overwritten both tables, and zz_recipe
\* holds rows
C12_Witness ==
    /\ runs # <<>>
    /\ pc = "done"
    /\ written = TableNames
    /\ tables["zz_recipe"][1].rows # <<>>
    /\ tables = FirstRunTables


(***************************************************************************)
(* Startup ordering (Spec).                                                *)
(***************************************************************************)
\* no Dataverse request has been issued and no call that issues one entered
NoDataRequest ==
    /\ ts = TsIdle
    /\ dg = DgIdle
    /\ \A name \in {"it", "rest"} : gens[name] = NoGen

NothingWritten ==
    /\ written = {}
    /\ \A t \in TableNames : tables[t] = <<>>

StartupOrder ==
    /\ cfg.state = "raised" =>
        /\ pc = "failed"
        /\ token = TokenUnset
        /\ NoDataRequest
        /\ NothingWritten
    /\ token.state = "raised" =>
        /\ pc = "failed"
        /\ NoDataRequest
        /\ NothingWritten
    /\ ~NoDataRequest => (cfg.state = "ok" /\ token.state = "ok")
    /\ pc \in PullCells \cup WriteCells \cup {"done"} => token.state = "ok"
    /\ token.state # "unset" => cfg.state = "ok"
    /\ token.requests <= 1

\* C13: a failing get_cfg ends the run before any token request and any
\* Dataverse request; a failing get_access_token ends it before any data
\* request and any table write; the token is acquired once, before the first
\* data request: it is set by the one step that leaves the get_access_token
\* cell and never again.
C13_StartupOrdering ==
    /\ []StartupOrder
    /\ [][token' # token => (token.state = "unset" /\ pc = "get_access_token"
                              /\ NoDataRequest)]_vars

\* C13 witness: the configuration was complete, MSAL answered without an
\* access token, and the run has ended with no request and no write
C13_Witness ==
    /\ cfg.state = "ok"
    /\ token.state = "raised"
    /\ token.requests = 1
    /\ pc = "failed"
    /\ err = <<TokenError>>
    /\ NoDataRequest
    /\ NothingWritten


(***************************************************************************)
(* Sleeps and errors of dataverse_get (SpecGet).                           *)
(***************************************************************************)
\* C14: a retryable answer to attempt a is followed by a sleep of
\* min(30, 2^(a-1)) seconds and then by another GET of the same URL: after
\* a sleep the loop always has an attempt left, and a call that has ended
\* has issued a GET after each of its sleeps, so that none was spent right
\* before the failure.
C14_SleepThenRetry ==
    /\ \A a \in DOMAIN dg.sleeps : dg.sleeps[a] = ScheduledSleep(a)
    /\ dg.pc = "backoff" => TransientStatus(dg.statusLog[Len(dg.statusLog)])
    /\ (dg.pc = "loop" /\ dg.sleeps # <<>>) => AttemptsLeft(dg.a, dg.max_retries)
    /\ (dg.pc \in {"returned", "raised"} /\ dg.sleeps # <<>>) =>
        Len(dg.statusLog) > Len(dg.sleeps)

\* the last response the call received
LastStatus == dg.statusLog[Len(dg.statusLog)]

\* C15: every error dataverse_get raises after a response, for a
\* non-retryable status as for exhausted retries, carries the status and
\* the body (or text) of the last response received.
C15_ErrorCarriesLastResponse ==
    (dg.pc = "raised" /\ dg.statusLog # <<>>) =>
        /\ dg.error # <<>>
        /\ dg.error[1].status = <<LastStatus>>
        /\ Len(dg.error[1].details) = 1


(***************************************************************************)
(* Fetch errors in the notebook run (Spec).                                *)
(***************************************************************************)
\* a page request of the running ingestion ended in a fatal fetch error
FetchFailed == \E name \in {"it", "rest"} : gens[name].pc = "raised"

\* the destination table of the entity set being ingested
IngestedTable == CHOOSE t \in TableNames : ENTITY_SETS[t] = ts.entity_set

\* C16: when a page request of an ingestion ends in a fatal fetch error,
\* dataverse_to_spark returns no table (the pages already read are dropped),
\* the error of dataverse_get is the one that reaches the top level and ends
\* the run, and the entity set's DataFrame is never bound nor its
\* destination table written in this run.
C16_FetchErrorAbortsIngestion ==
    FetchFailed =>
        /\ ts.pc = "raised"
        /\ ts.result = <<>>
        /\ ts.sdf = <<>> \/ gens["rest"].pc = "raised"
        /\ err # <<>>
        /\ err = dg.error
        /\ err[1].text \in {"GET failed", "Exceeded retries for GET."}
        /\ pc = "failed"
        /\ dfs[IngestedTable] = <<>>
        /\ IngestedTable \notin written
        /\ tables[IngestedTable] = <<>>

\* C16 witness: the first page of zz_Recipe was read into the sample, the
\* request for the second page ran out of retries, and the run has ended
\* with no table
C16_Witness ==
    /\ gens["it"].pc = "raised"
    /\ Len(gens["it"].urls) = 2
    /\ ts.sample # <<>>
    /\ ts.entity_set = "zz_Recipe"
    /\ err = <<ExceededRetries>>
    /\ pc = "failed"
    /\ ts.result = <<>>
    /\ tables["zz_recipe"] = <<>>


(***************************************************************************)
(* Backpressure in fetch_all (SpecSpark).                                  *)
(***************************************************************************)
\* the records of the first k served pages
RECURSIVE RowsUpTo(_)
RowsUpTo(k) == IF k <= 0 THEN 0 ELSE Len(ServedPages[k].rows) + RowsUpTo(k - 1)

\* the page that holds the r-th record of the stream (r >= 1)
PageHolding(r) == CHOOSE k \in 1..Len(ServedPages) : RowsUpTo(k - 1) < r /\ r <= RowsUpTo(k)

\* the sampling loop has left `it` behind: by break or by its end
SamplingOver == ts.pc \notin {"sampling", "raised"}

\* C17: a generator has requested page i+1 only when the consumer has taken
\* every record of pages 1..i, and by then it holds no row of page i; the
\* sampling loop that stopped after r records has caused requests for the
\* pages up to the one holding record r and for none beyond, whatever
\* happens afterwards.
C17_Backpressure ==
    /\ \A name \in {"it", "rest"} :
        LET g == gens[name]
            k == Len(g.urls)
        IN  k >= 1 =>
            /\ k <= Len(ServedPages)
            /\ Len(Yielded(name)) >= RowsUpTo(k - 1)
            /\ Len(Yielded(name)) <= RowsUpTo(k)
            /\ g.pc = "call" => Len(Yielded(name)) = RowsUpTo(k - 1)
    /\ (SamplingOver /\ ts.sample # <<>>) =>
        /\ Len(gens["it"].urls) = PageHolding(Len(ts.sample))
        /\ cur # "it"
        /\ gens["it"].pc \in {"iter", "done"}

\* C17 witness: the stream has a second page, the sampling loop stopped
\* after the one record of page 1, and the call has run to its end without
\* `it` ever asking for page 2
C17_Witness ==
    /\ ts.pc = "returned"
    /\ Len(ServedPages) = 2
    /\ Len(ts.sample) = 1
    /\ ServedPages[1].link = "next"
    /\ gens["it"].pc = "iter"
    /\ gens["it"].urls = <<FirstUrl(RESOURCE, CalledSet)>>


(***************************************************************************)
(* Termination of fetch_all (FairSpark).                                   *)
(***************************************************************************)
\* the first served page whose response carries no continuation link
LastPage == CHOOSE k \in 1..Len(ServedPages) :
                /\ ServedPages[k].link # "next"
                /\ \A j \in 1..(k - 1) : ServedPages[j].link = "next"

FetchBounded ==
    \A name \in {"it", "rest"} :
        /\ Len(Yielded(name)) <= Len(ServedStream)
        /\ Len(gens[name].urls) <= LastPage
        /\ gens[name].pc = "done" =>
            /\ Len(gens[name].urls) = LastPage
            /\ ~Truthy(NextLink(gens[name].data[1]))
            /\ gens[name].data = <<ServerBody(RESOURCE, CalledSet, LastPage)>>

\* the generator list(...) consumes to its end
Consumed == gens["rest"]

\* C18: a fetch_all that is consumed to its end terminates: once created it
\* comes to its end, or to a fatal fetch error when the server answered a
\* request with a failure instead of the page.  What it yields is
\* never longer than the entity set's rows; it stops at the first page
\* whose response has no or an empty @odata.nextLink and requests nothing
\* after that page.
C18_FetchTerminates ==
    /\ []FetchBounded
    /\ (Consumed.pc = "created") ~>
        \/ Consumed.pc = "done"
        \/ (Consumed.pc = "raised" /\ err # <<>> /\ faultsLeft < MaxFaults)

\* C18 witness: the second page's response carries an empty continuation
\* link, and the generator ended there after two requests
C18_Witness ==
    /\ LastPage = 2
    /\ ServedPages[2].link = "empty"
    /\ Consumed.pc = "done"
    /\ Len(Consumed.urls) = 2
    /\ Len(ts.rest) = 2


(***************************************************************************)
(* The retry budget of a page request (SpecSpark).                         *)
(***************************************************************************)
\* the answers the running call of dataverse_get has received so far
Answers == dg.statusLog

\* the transient failures a generator has met over all its page requests
FailuresOf(g) == g.gets - Len(g.urls)

\* C19: every page request has the whole retry budget to itself.  The call
\* of dataverse_get a page is fetched with has max_retries = 5, counts its
\* attempts from 1 (the attempt number is one more than the answers this
\* call has received) and its sleeps from 1s, whatever the earlier pages
\* cost; it gives up only after 5 retryable answers of its own, so a
\* generator whose pages each met fewer than 5 failures comes to its end
\* however many failures that makes in all.
C19_RetryBudgetPerPage ==
    /\ dg.pc # "idle" =>
        /\ dg.max_retries = 5
        /\ dg.a = Len(dg.sleeps) + 1
        /\ Len(Answers) \in {Len(dg.sleeps), Len(dg.sleeps) + 1}
        /\ Len(Answers) <= 5
        /\ \A i \in DOMAIN dg.sleeps : dg.sleeps[i] = ScheduledSleep(i)
        /\ dg.sleeps # <<>> => dg.sleeps[1] = 1
    /\ dg.error = <<ExceededRetries>> =>
        /\ Len(Answers) = 5
        /\ \A i \in 1..5 : TransientStatus(Answers[i])
    /\ \A name \in {"it", "rest"} :
        /\ gens[name].pc = "raised" => dg.error # <<>>
        /\ (gens[name].pc = "call" /\ dg.pc = "returned") =>
            (Len(Answers) <= 5 /\ \A i \in 1..(Len(Answers) - 1) : TransientStatus(Answers[i]))

\* C19 witness: the first page cost four failures, the second page's
\* request still started at attempt 1 with a sleep of 1s, and the generator
\* came to its end after five failures in all
C19_Witness ==
    /\ gens["rest"].pc = "done"
    /\ Len(gens["rest"].urls) = 2
    /\ gens["rest"].gets = 7
    /\ FailuresOf(gens["rest"]) = 5
    /\ Answers = <<503, 200>>
    /\ dg.sleeps = <<1>>
    /\ ts.rest = ServedStream

=============================================================================
